---- MODULE Spec2Model ----
(***************************************************************************)
(* A model of the duplicate finder of img-gallery/remove_duplicates.py      *)
(* (main, find_images, find_duplicates and remove_duplicates, run against  *)
(* a small directory of files) and of the content cropper of               *)
(* img-gallery/utils/crop_utils.py (crop_image_to_content, called on one   *)
(* image file).                                                            *)
(***************************************************************************)
EXTENDS Integers, Sequences, FiniteSets, TLC

(* ---------------------------------------------------------------------- *)
(* Bounds and value domains                                                *)
(* ---------------------------------------------------------------------- *)

\* Number of files under the root directory.
MaxFiles == 3

\* Number of removals the environment may refuse in one run (a removal of a
\* path that no longer exists always fails and is not counted).
MaxRefusals == 1

\* The paths under the root; the integer order is the lexical path order.
Paths == 1..MaxFiles

\* Modification times a file may carry (ties and distinct times both occur).
Mtimes == {1, 2}

\* File contents: Unreadable cannot be opened at all, Undecodable is a
\* readable byte string that is no image, ImageBytes is a decodable image.
Unreadable == "unreadable"
Undecodable == "undecodable"
ImageBytes == "image"
Contents == {Unreadable, Undecodable, ImageBytes}

\* Python's None where a fingerprint is expected (the hash functions return
\* it on failure), where a path is expected, and where the returned tuple is
\* expected.
None == "None"
NoPath == 0
NoResult == <<>>

\* An extension is its letters (base) and the case they are written in.
LowerExt(b) == [base |-> b, case |-> "lower"]
UpperExt(b) == [base |-> b, case |-> "upper"]

\* Extensions of the files of the directory: two spellings of an image
\* extension and one extension that is no image extension.
FileExts == {LowerExt("png"), UpperExt("png"), LowerExt("txt")}

\* The files a directory may hold.  Attributes the program never reads are
\* fixed (the bytes and time of a file no glob matches, the time of a file
\* that yields no fingerprint in either mode), and the upper-case spelling
\* is given to decodable images only.
FileKinds ==
    {f \in [ext : FileExts, content : Contents, mtime : Mtimes] :
        /\ (f.ext.base = "txt" => f.content = Undecodable /\ f.mtime = 1)
        /\ (f.content = Unreadable => f.mtime = 1)
        /\ (f.ext = UpperExt("png") => f.content = ImageBytes)}

\* An extension written in mixed case, such as ".Png".
MixedExt(b) == [base |-> b, case |-> "mixed"]

\* The files of a directory whose images carry every spelling of the
\* extension: lower, upper and mixed case.
ScanKinds ==
    {f \in [ext : {LowerExt("png"), UpperExt("png"), MixedExt("png"), LowerExt("txt")},
            content : {Undecodable, ImageBytes}, mtime : Mtimes] :
        /\ (f.ext.base = "txt" => f.content = Undecodable /\ f.mtime = 1)
        /\ (f.ext.base = "png" => f.content = ImageBytes)}

\* Largest width and height of the images whose pixels are drawn freely.
MaxSide == 2

\* Number of rows of the goodreads CSV.
MaxRows == 2

\* The most items in a submitted edit form.
MaxItems == 2

\* The longest cached image list paged through.
MaxCached == 201

\* Number of images under the resizer's input directory, number of runs of
\* the resizer, and the last second of its clock.
MaxImages == 2
MaxRuns == 2
MaxTime == 2

\* Number of times crop_image_to_content is called on the file.
MaxCalls == 3

\* Pixels of a decoded RGBA image: opaque white, opaque black, and a black
\* pixel that is fully transparent.
White == [r |-> 255, g |-> 255, b |-> 255, a |-> 255]
Black == [r |-> 0, g |-> 0, b |-> 0, a |-> 255]
Clear == [r |-> 0, g |-> 0, b |-> 0, a |-> 0]
RGBAPixels == {White, Black, Clear}

\* Pixels of a file without an alpha channel (a JPEG).
WhiteRGB == [r |-> 255, g |-> 255, b |-> 255]
BlackRGB == [r |-> 0, g |-> 0, b |-> 0]
RGBPixels == {WhiteRGB, BlackRGB}

\* The pixel positions <<x, y>> of an image of the given size.
Coords(w, h) == (0..(w - 1)) \X (0..(h - 1))

\* An image file: its format, whether it decodes, and its pixel grid.
ImageFile(format, w, h, px) ==
    [format |-> format, kind |-> "image", width |-> w, height |-> h, px |-> px]

\* A file that does not decode as an image.
CorruptFile(format) ==
    [format |-> format, kind |-> "corrupt", width |-> 0, height |-> 0, px |-> <<>>]

\* A file that was opened for writing and never written: zero bytes.
TruncatedFile(format) ==
    [format |-> format, kind |-> "truncated", width |-> 0, height |-> 0, px |-> <<>>]

\* The pixels a file of the format can hold: a JPEG has no alpha channel.
FilePixels(format) == IF format = "JPEG" THEN RGBPixels ELSE RGBAPixels

\* A w x h image that is white but for a black block of bw x bh pixels whose
\* first pixel is (x0, y0).
BlockFile(format, w, h, x0, y0, bw, bh) ==
    ImageFile(format, w, h,
              [c \in Coords(w, h) |->
                  IF /\ x0 <= c[1] /\ c[1] < x0 + bw
                     /\ y0 <= c[2] /\ c[2] < y0 + bh
                  THEN Black ELSE White])

\* The 100 x 100 image with a 10 x 10 block at (40, 40), and a 10 x 10
\* image that is content from edge to edge.
ScenarioFile == BlockFile("PNG", 100, 100, 40, 40, 10, 10)
SolidFile == BlockFile("PNG", 10, 10, 0, 0, 10, 10)

\* Pixels that are almost background: white in two channels only, white but
\* for one level of blue, barely visible black, and white with no opacity.
Yellow == [r |-> 255, g |-> 255, b |-> 0, a |-> 255]
NearWhite == [r |-> 255, g |-> 255, b |-> 254, a |-> 255]
Faint == [r |-> 0, g |-> 0, b |-> 0, a |-> 1]
WhiteClear == [r |-> 255, g |-> 255, b |-> 255, a |-> 0]

\* A 7 x 3 image whose middle row holds one pixel of every kind between two
\* white pixels; the rows above and below are white.
Palette == <<White, Clear, Yellow, WhiteClear, NearWhite, Faint, White>>
PaletteFile ==
    ImageFile("PNG", 7, 3,
              [c \in Coords(7, 3) |-> IF c[2] = 1 THEN Palette[c[1] + 1] ELSE White])

\* The files crop_image_to_content is called on besides the small images.
NamedFiles == {ScenarioFile, SolidFile, PaletteFile, CorruptFile("PNG")}

\* The margins it is called with: 0, 0.1 (the default), 0.5 and 1.
Margins ==
    {[num |-> 0, den |-> 1], [num |-> 1, den |-> 10],
     [num |-> 1, den |-> 2], [num |-> 1, den |-> 1]}

VARIABLES
    fs,              \* the directory: existing path -> [ext, content, mtime]
    fs0,             \* the directory as it was when the run started
    case_sensitive,  \* whether pathlib's glob matches names case-sensitively
    args,            \* parsed command line: dry_run, keep_newest, exact_match_only
    pc,              \* position of main
    images,          \* find_images' result, the discovery list
    duplicates,      \* find_duplicates' result: sequence of [hash, paths]
    g,               \* remove_duplicates: index of the group being processed
    j,               \* remove_duplicates: index into remove_paths
    keep_path,       \* remove_duplicates: file_paths[0] of the current group
    remove_paths,    \* remove_duplicates: file_paths[1:] of the current group
    files_kept,
    files_removed,
    result,          \* the tuple remove_duplicates returned, or NoResult
    refusals,        \* removals the environment has refused so far
    log              \* the lines written through logger

\* The state of the duplicate finder.
dupVars == <<fs, fs0, case_sensitive, args, pc, images, duplicates, g, j,
             keep_path, remove_paths, files_kept, files_removed, result,
             refusals, log>>

VARIABLES
    image_file,      \* the file at image_path: [format, kind, width, height, px]
    file_at_call,    \* the file as it was when the last call started
    margin_percent,  \* the margin argument, a fraction [num, den]
    img,             \* the decoded RGBA image of the last call
    mask,            \* the positions where content_mask is True
    bbox,            \* top, bottom, left, right of lines 40-43
    margin,          \* the margin of line 47
    crop_box,        \* left, top, right, bottom passed to img.crop
    ret,             \* the value the last call returned
    calls,           \* number of calls that have returned
    saved_sizes      \* the sizes of the images saved so far, in order

\* The state of the cropper.
cropVars == <<image_file, file_at_call, margin_percent, img, mask, bbox,
              margin, crop_box, ret, calls, saved_sizes>>

VARIABLES
    originals,       \* the images under input_dir: index -> [mtime, shape]
    outputs,         \* the files under output_dir: index -> [state, mtime]
    now,             \* the clock, in seconds
    pillow_removes,  \* whether a failed save removes the file it created
    input_ok,        \* whether input_dir exists and is a directory
    force_overwrite, \* the argument of the current or last run
    rs_pc,           \* position of resize_images: "idle" or "loop"
    rs_i,            \* index of original_file_path in all_image_files
    processed,       \* the images that reached Image.open in this run
    written,         \* the images whose output was written in this run
    modified_since,  \* originals modified since their output was produced
    touched,         \* whether any original was modified after the start
    runs             \* number of runs that have returned

\* The state of the resizer.
resizeVars == <<originals, outputs, now, pillow_removes, input_ok,
                force_overwrite, rs_pc, rs_i, processed, written,
                modified_since, touched, runs>>

VARIABLES
    script,          \* which goodreads script runs: "extract" or "parse"
    csv_found,       \* whether the CSV file exists
    df,              \* the rows of the CSV: [review, title, author]
    disk0,           \* the files of the output directory before the run
    disk,            \* the files of the output directory: [name, row]
    rv_pc,           \* position of create_review_files
    todo,            \* the row indices the loop has still to visit
    created,         \* the files written so far, in order: [name, row]
    files_created    \* the counter of parse_goodreads_export.py

\* The state of the review extractors.
reviewVars == <<script, csv_found, df, disk0, disk, rv_pc, todo, created,
                files_created>>

\* gallery_server.py
VARIABLES
    ADMIN_MODE,         \* the configuration flag
    image_dir,          \* ./imgs: path -> what the original file holds
    cached_image_list,  \* the sorted list of relative paths scanned last
    db,                 \* gallery_metadata.db: the images and tags tables
    form,               \* the form the client posts to /admin/edit
    response,           \* the response to the last request
    served              \* the gallery pages served from the current list

serverVars == <<ADMIN_MODE, image_dir, cached_image_list, db, form, response,
                served>>

vars == <<dupVars, cropVars, resizeVars, reviewVars, serverVars>>

\* What each program leaves alone.
outsideDup == <<cropVars, resizeVars, reviewVars, serverVars>>
outsideCrop == <<dupVars, resizeVars, reviewVars, serverVars>>
outsideResize == <<dupVars, cropVars, reviewVars, serverVars>>
outsideReview == <<dupVars, cropVars, resizeVars, serverVars>>
outsideServer == <<dupVars, cropVars, resizeVars, reviewVars>>

(* ---------------------------------------------------------------------- *)
(* Pure helpers                                                            *)
(* ---------------------------------------------------------------------- *)

\* str.upper() applied to an extension.
upper(e) == [e EXCEPT !.case = "upper"]

\* image_extensions, in one iteration order of the set (sorted() in
\* find_images makes the order immaterial).
image_extensions ==
    <<LowerExt("jpg"), LowerExt("jpeg"), LowerExt("png"), LowerExt("gif"),
      LowerExt("bmp"), LowerExt("tiff"), LowerExt("webp"), LowerExt("tif")>>

\* Whether a name ending in extension e matches the glob pattern '*' + pat:
\* letter for letter where pathlib matches case-sensitively (POSIX paths),
\* up to case where it does not (Windows paths).
GlobMatch(cs, pat, e) == IF cs THEN e = pat ELSE e.base = pat.base

\* directory.rglob('*' + pat): the matching existing paths.
rglob(files, cs, pat) ==
    SelectSeq([i \in 1..MaxFiles |-> i],
              LAMBDA p : p \in DOMAIN files /\ GlobMatch(cs, pat, files[p].ext))

\* Insert x into the sorted sequence s after every element whose key is not
\* greater (a stable insertion).
RECURSIVE InsertByKey(_, _, _, _)
InsertByKey(s, x, key, i) ==
    IF i > Len(s) \/ key[x] < key[s[i]]
    THEN SubSeq(s, 1, i - 1) \o <<x>> \o SubSeq(s, i, Len(s))
    ELSE InsertByKey(s, x, key, i + 1)

\* Python's stable sort of s by key (a function on the elements), ascending.
RECURSIVE StableSort(_, _)
StableSort(s, key) ==
    IF s = <<>> THEN <<>>
    ELSE InsertByKey(StableSort(SubSeq(s, 1, Len(s) - 1), key), s[Len(s)], key, 1)

\* Python's stable sort with reverse=True: descending keys, equal keys keep
\* their original order.
SortDescending(s, key) == StableSort(s, [x \in DOMAIN key |-> 0 - key[x]])

\* sorted(images): lexical path order.
sorted(s) == StableSort(s, [p \in Paths |-> p])

\* A line written through logger: its level, its text and the path it names
\* (NoPath when it names no path).
LogLine(level, msg, path) == [level |-> level, msg |-> msg, path |-> path]

\* get_image_hash: the average hash of a decodable image, None (with a
\* warning) when the file cannot be opened or decoded.
get_image_hash(files, p) ==
    IF files[p].content = ImageBytes THEN "ahash:image" ELSE None

\* get_file_hash: the SHA256 digest of the bytes, None (with a warning) when
\* the file cannot be read.
get_file_hash(files, p) ==
    CASE files[p].content = Unreadable -> None
      [] files[p].content = Undecodable -> "sha256:undecodable"
      [] files[p].content = ImageBytes -> "sha256:image"

\* The fingerprint find_duplicates computes for one path.
image_hash(files, use_perceptual_hash, p) ==
    IF use_perceptual_hash THEN get_image_hash(files, p) ELSE get_file_hash(files, p)

\* find_images: both spellings of every extension are globbed, the matches
\* are collected in one list, and the list is returned sorted.
RECURSIVE GlobAll(_, _, _)
GlobAll(files, cs, i) ==
    IF i > Len(image_extensions) THEN <<>>
    ELSE rglob(files, cs, image_extensions[i])
         \o rglob(files, cs, upper(image_extensions[i]))
         \o GlobAll(files, cs, i + 1)

find_images(files, cs) == sorted(GlobAll(files, cs, 1))

\* hash_groups[h].append(p) on the insertion-ordered mapping, kept as a
\* sequence of [hash, paths] in the order the hashes were first seen.
AppendToGroup(groups, h, p) ==
    IF \E i \in 1..Len(groups) : groups[i].hash = h
    THEN [i \in 1..Len(groups) |->
            IF groups[i].hash = h
            THEN [groups[i] EXCEPT !.paths = Append(@, p)]
            ELSE groups[i]]
    ELSE Append(groups, [hash |-> h, paths |-> <<p>>])

\* A loop that appends every path, also under the hash None.
RECURSIVE hash_groupsKeepsNone(_, _, _, _)
hash_groupsKeepsNone(files, use_perceptual_hash, imgs, i) ==
    IF i = 0 THEN <<>>
    ELSE AppendToGroup(hash_groupsKeepsNone(files, use_perceptual_hash, imgs, i - 1),
                       image_hash(files, use_perceptual_hash, imgs[i]), imgs[i])

\* The loop of find_duplicates over the discovery list: a path whose hash is
\* None is left out.
RECURSIVE hash_groups(_, _, _, _)
hash_groups(files, use_perceptual_hash, imgs, i) ==
    IF i = 0 THEN <<>>
    ELSE LET prev == hash_groups(files, use_perceptual_hash, imgs, i - 1)
             h == image_hash(files, use_perceptual_hash, imgs[i])
         IN  IF h # None THEN AppendToGroup(prev, h, imgs[i]) ELSE prev

\* The filter that ends find_duplicates: groups of more than one path.
IsDuplicateGroup(grp) == Len(grp.paths) > 1

find_duplicates(files, use_perceptual_hash, imgs) ==
    SelectSeq(hash_groups(files, use_perceptual_hash, imgs, Len(imgs)),
              IsDuplicateGroup)

\* The warnings the hash functions log during the scan, in scan order.
HashWarnings(files, use_perceptual_hash, imgs) ==
    LET failed == SelectSeq(imgs,
                    LAMBDA p : image_hash(files, use_perceptual_hash, p) = None)
    IN  [i \in 1..Len(failed) |-> LogLine("WARNING", "Could not hash", failed[i])]

\* A sort whose reverse flag is keep_oldest instead of its negation.
SortByMtimeFlagInverted(files, file_paths, keep_oldest) ==
    LET key == [p \in DOMAIN files |-> files[p].mtime]
    IN  IF keep_oldest THEN SortDescending(file_paths, key)
        ELSE StableSort(file_paths, key)

\* A sort that ignores keep_oldest and always sorts ascending.
SortByMtimeAlwaysAscending(files, file_paths, keep_oldest) ==
    StableSort(file_paths, [p \in DOMAIN files |-> files[p].mtime])

\* file_paths.sort(key=mtime, reverse=not keep_oldest)
SortByMtime(files, file_paths, keep_oldest) ==
    LET key == [p \in DOMAIN files |-> files[p].mtime]
    IN  IF keep_oldest THEN StableSort(file_paths, key)
        ELSE SortDescending(file_paths, key)

(* ---------------------------------------------------------------------- *)
(* The run                                                                 *)
(* ---------------------------------------------------------------------- *)

\* The duplicate finder is not part of the run.
DupOff ==
    /\ fs = <<>> /\ fs0 = <<>>
    /\ case_sensitive = TRUE
    /\ args = [dry_run |-> FALSE, keep_newest |-> FALSE, exact_match_only |-> FALSE]
    /\ pc = "off"
    /\ images = <<>>
    /\ duplicates = <<>>
    /\ g = 0 /\ j = 0
    /\ keep_path = NoPath
    /\ remove_paths = <<>>
    /\ files_kept = 0 /\ files_removed = 0
    /\ result = NoResult
    /\ refusals = 0
    /\ log = <<>>

\* The resizer is not part of the run.
ResizeOff ==
    /\ originals = <<>>
    /\ outputs = <<>>
    /\ now = 0
    /\ pillow_removes = TRUE
    /\ input_ok = FALSE
    /\ force_overwrite = FALSE
    /\ rs_pc = "off"
    /\ rs_i = 0
    /\ processed = {}
    /\ written = {}
    /\ modified_since = {}
    /\ touched = FALSE
    /\ runs = 0

\* The cropper is not part of the run.
CropOff ==
    /\ image_file = CorruptFile("PNG")
    /\ file_at_call = CorruptFile("PNG")
    /\ margin_percent = [num |-> 0, den |-> 1]
    /\ img = [width |-> 0, height |-> 0, px |-> <<>>]
    /\ mask = {}
    /\ bbox = [top |-> 0, bottom |-> 0, left |-> 0, right |-> 0]
    /\ margin = 0
    /\ crop_box = [left |-> 0, top |-> 0, right |-> 0, bottom |-> 0]
    /\ ret = "None"
    /\ calls = 0
    /\ saved_sizes = <<>>

\* The review extractors are not part of the run.
ReviewOff ==
    /\ script = "off"
    /\ csv_found = FALSE
    /\ df = <<>>
    /\ disk0 = {}
    /\ disk = {}
    /\ rv_pc = "off"
    /\ todo = <<>>
    /\ created = <<>>
    /\ files_created = 0

\* The body of a response that shows no page of images.
NoPage ==
    [images_on_page |-> <<>>, current_page |-> 0, total_pages |-> 0,
     has_next |-> FALSE, has_prev |-> FALSE]

\* The page number of a request whose URL has none.
NoPageNum == -1

\* No request has been answered.
NoResponse == [status |-> 0, page_num |-> NoPageNum, page |-> NoPage]

\* The database before any metadata is saved.
EmptyDb == [images |-> [p \in {} |-> NoPage], tags |-> {}]

\* The server is not part of the run.
ServerOff ==
    /\ ADMIN_MODE = FALSE
    /\ image_dir = <<>>
    /\ cached_image_list = <<>>
    /\ db = EmptyDb
    /\ form = <<>>
    /\ response = NoResponse
    /\ served = {}

\* Only the named program is part of the run.
OnlyDup == CropOff /\ ResizeOff /\ ReviewOff /\ ServerOff
OnlyCrop == DupOff /\ ResizeOff /\ ReviewOff /\ ServerOff
OnlyResize == DupOff /\ CropOff /\ ReviewOff /\ ServerOff
OnlyReview == DupOff /\ CropOff /\ ResizeOff /\ ServerOff
OnlyServer == DupOff /\ CropOff /\ ResizeOff /\ ReviewOff

\* main is entered on a directory whose files are of the given kinds.
InitFrom(kinds) ==
    /\ fs \in [Paths -> kinds]
    /\ fs0 = fs
    /\ case_sensitive \in BOOLEAN
    /\ args \in [dry_run : BOOLEAN, keep_newest : BOOLEAN, exact_match_only : BOOLEAN]
    /\ pc = "main"
    /\ images = <<>>
    /\ duplicates = <<>>
    /\ g = 0
    /\ j = 0
    /\ keep_path = NoPath
    /\ remove_paths = <<>>
    /\ files_kept = 0
    /\ files_removed = 0
    /\ result = NoResult
    /\ refusals = 0
    /\ log = <<>>
    /\ OnlyDup

Init == InitFrom(FileKinds)

\* main, lines 182-189: the root does not exist or is no directory.
MainBadDirectory ==
    /\ pc = "main"
    /\ pc' = "exit1"
    /\ log' = Append(log, LogLine("ERROR", "Directory does not exist", NoPath))
    /\ UNCHANGED <<fs, fs0, case_sensitive, args, images, duplicates, g, j,
                   keep_path, remove_paths, files_kept, files_removed, result, refusals>>
    /\ UNCHANGED outsideDup

\* main, lines 182-194: the root is a directory; the scan can start.
MainValidDirectory ==
    /\ pc = "main"
    /\ pc' = "find"
    /\ log' = Append(log, LogLine("INFO", "Scanning directory", NoPath))
    /\ UNCHANGED <<fs, fs0, case_sensitive, args, images, duplicates, g, j,
                   keep_path, remove_paths, files_kept, files_removed, result, refusals>>
    /\ UNCHANGED outsideDup

\* main, lines 196-206, with the call of find_duplicates: the scan, the
\* grouping, and either "No duplicates found!" or the entry of
\* remove_duplicates with both counters at zero.
FindDuplicates ==
    /\ pc = "find"
    /\ LET imgs == find_images(fs, case_sensitive)
           dups == find_duplicates(fs, ~args.exact_match_only, imgs)
           warn == HashWarnings(fs, ~args.exact_match_only, imgs)
       IN  /\ images' = imgs
           /\ duplicates' = dups
           /\ IF dups = <<>>
              THEN /\ pc' = "done"
                   /\ log' = log \o warn
                                 \o <<LogLine("INFO", "No duplicates found!", NoPath)>>
                   /\ g' = g
              ELSE /\ pc' = "group"
                   /\ log' = log \o warn
                                 \o <<LogLine("INFO", "Found groups of duplicates", NoPath)>>
                   /\ g' = 1
    /\ files_kept' = 0
    /\ files_removed' = 0
    /\ UNCHANGED <<fs, fs0, case_sensitive, args, j, keep_path, remove_paths, result, refusals>>
    /\ UNCHANGED outsideDup

\* Where remove_duplicates goes after candidate number jj of group gg: the
\* next candidate, the next group, or the return.
AfterCandidate(gg, jj, candidates) ==
    IF jj < Len(candidates) THEN [pc |-> "candidate", g |-> gg, j |-> jj + 1]
    ELSE IF gg < Len(duplicates) THEN [pc |-> "group", g |-> gg + 1, j |-> 0]
    ELSE [pc |-> "return", g |-> gg, j |-> 0]

\* remove_duplicates, lines 109-119: the group's list is sorted in place by
\* modification time, index 0 is kept, the rest are the candidates.
SortGroup ==
    /\ pc = "group"
    /\ \A i \in 1..Len(duplicates[g].paths) : duplicates[g].paths[i] \in DOMAIN fs
    /\ LET file_paths == SortByMtime(fs, duplicates[g].paths, ~args.keep_newest)
           nxt == AfterCandidate(g, 0, Tail(file_paths))
       IN  /\ duplicates' = [duplicates EXCEPT ![g].paths = file_paths]
           /\ keep_path' = file_paths[1]
           /\ remove_paths' = Tail(file_paths)
           /\ log' = Append(log, LogLine("INFO", "Keeping", file_paths[1]))
           /\ pc' = nxt.pc
           /\ g' = nxt.g
           /\ j' = nxt.j
    /\ files_kept' = files_kept + 1
    /\ UNCHANGED <<fs, fs0, case_sensitive, args, images, files_removed, result, refusals>>
    /\ UNCHANGED outsideDup

\* remove_duplicates, line 111: p.stat() raises for a member of the group
\* (the file is gone, or the lookup fails); nothing catches the exception
\* and it leaves main with a traceback.
SortGroupStatError ==
    /\ pc = "group"
    /\ pc' = "crashed"
    /\ UNCHANGED <<fs, fs0, case_sensitive, args, images, duplicates, g, j,
                   keep_path, remove_paths, files_kept, files_removed, result, refusals, log>>
    /\ UNCHANGED outsideDup

\* The directory after path p is unlinked.
unlink(files, p) == [q \in DOMAIN files \ {p} |-> files[q]]

\* A dry-run branch that reports the candidate and unlinks it all the same.
WouldRemoveAndUnlinks ==
    /\ pc = "candidate"
    /\ args.dry_run
    /\ LET nxt == AfterCandidate(g, j, remove_paths)
       IN  /\ pc' = nxt.pc
           /\ g' = nxt.g
           /\ j' = nxt.j
    /\ fs' = unlink(fs, remove_paths[j])
    /\ log' = Append(log, LogLine("INFO", "Would remove", remove_paths[j]))
    /\ UNCHANGED <<fs0, case_sensitive, args, images, duplicates,
                   keep_path, remove_paths, files_kept, files_removed, result, refusals>>
    /\ UNCHANGED outsideDup

\* remove_duplicates, lines 122-123: dry run, the candidate is only reported.
WouldRemove ==
    /\ pc = "candidate"
    /\ args.dry_run
    /\ LET nxt == AfterCandidate(g, j, remove_paths)
       IN  /\ pc' = nxt.pc
           /\ g' = nxt.g
           /\ j' = nxt.j
    /\ log' = Append(log, LogLine("INFO", "Would remove", remove_paths[j]))
    /\ UNCHANGED <<fs, fs0, case_sensitive, args, images, duplicates,
                   keep_path, remove_paths, files_kept, files_removed, result, refusals>>
    /\ UNCHANGED outsideDup

\* A successful removal that is not counted.
RemovedUncounted ==
    /\ pc = "candidate"
    /\ ~args.dry_run
    /\ remove_paths[j] \in DOMAIN fs
    /\ fs' = unlink(fs, remove_paths[j])
    /\ LET nxt == AfterCandidate(g, j, remove_paths)
       IN  /\ pc' = nxt.pc
           /\ g' = nxt.g
           /\ j' = nxt.j
    /\ log' = Append(log, LogLine("INFO", "Removed", remove_paths[j]))
    /\ UNCHANGED <<fs0, case_sensitive, args, images, duplicates, keep_path,
                   remove_paths, files_kept, files_removed, result, refusals>>
    /\ UNCHANGED outsideDup

\* remove_duplicates, lines 125-128: unlink succeeds.
Removed ==
    /\ pc = "candidate"
    /\ ~args.dry_run
    /\ remove_paths[j] \in DOMAIN fs
    /\ fs' = unlink(fs, remove_paths[j])
    /\ files_removed' = files_removed + 1
    /\ LET nxt == AfterCandidate(g, j, remove_paths)
       IN  /\ pc' = nxt.pc
           /\ g' = nxt.g
           /\ j' = nxt.j
    /\ log' = Append(log, LogLine("INFO", "Removed", remove_paths[j]))
    /\ UNCHANGED <<fs0, case_sensitive, args, images, duplicates,
                   keep_path, remove_paths, files_kept, result, refusals>>
    /\ UNCHANGED outsideDup

\* A failure that leaves the loop over the group's candidates.
AfterFailureBreaks(gg, jj, candidates) ==
    AfterCandidate(gg, Len(candidates), candidates)

\* Where remove_duplicates goes after the unlink of candidate jj raised: the
\* except clause ends the iteration and the loop goes on.
AfterFailure(gg, jj, candidates) == AfterCandidate(gg, jj, candidates)

\* remove_duplicates, lines 129-130: unlink raises (the path no longer
\* exists, or the removal is refused); the error is logged.
FailedToRemove ==
    /\ pc = "candidate"
    /\ ~args.dry_run
    /\ \/ /\ remove_paths[j] \notin DOMAIN fs
          /\ refusals' = refusals
       \/ /\ remove_paths[j] \in DOMAIN fs
          /\ refusals < MaxRefusals
          /\ refusals' = refusals + 1
    /\ LET nxt == AfterFailure(g, j, remove_paths)
       IN  /\ pc' = nxt.pc
           /\ g' = nxt.g
           /\ j' = nxt.j
    /\ log' = Append(log, LogLine("ERROR", "Failed to remove", remove_paths[j]))
    /\ UNCHANGED <<fs, fs0, case_sensitive, args, images, duplicates,
                   keep_path, remove_paths, files_kept, files_removed, result>>
    /\ UNCHANGED outsideDup

\* remove_duplicates, line 132, and main, lines 209-221: the counters are
\* returned and printed.
Summary ==
    /\ pc = "return"
    /\ result' = <<files_kept, files_removed>>
    /\ log' = Append(log, LogLine("INFO", "Summary", NoPath))
    /\ pc' = "done"
    /\ UNCHANGED <<fs, fs0, case_sensitive, args, images, duplicates, g, j,
                   keep_path, remove_paths, files_kept, files_removed, refusals>>
    /\ UNCHANGED outsideDup

Next ==
    \/ MainBadDirectory
    \/ MainValidDirectory
    \/ FindDuplicates
    \/ SortGroup
    \/ SortGroupStatError
    \/ WouldRemove
    \/ Removed
    \/ FailedToRemove
    \/ Summary

Spec == Init /\ [][Next]_vars

\* The same run on directories whose images carry every spelling of the
\* extension.
ScanInit == InitFrom(ScanKinds)

ScanSpec == ScanInit /\ [][Next]_vars

(* ---------------------------------------------------------------------- *)
(* crop_image_to_content                                                   *)
(* ---------------------------------------------------------------------- *)

ENABLE_CROPPING == TRUE

Max2(a, b) == IF a >= b THEN a ELSE b
Min2(a, b) == IF a <= b THEN a ELSE b
SetMin(S) == CHOOSE x \in S : \A y \in S : x <= y
SetMax(S) == CHOOSE x \in S : \A y \in S : x >= y

\* img.convert('RGBA') on one pixel: a pixel without alpha becomes opaque.
ConvertRGBA(pixel) ==
    IF "a" \in DOMAIN pixel THEN pixel
    ELSE [r |-> pixel.r, g |-> pixel.g, b |-> pixel.b, a |-> 255]

\* Image.open followed by the conversion to RGBA.
Decode(file) ==
    [width |-> file.width, height |-> file.height,
     px |-> [c \in Coords(file.width, file.height) |-> ConvertRGBA(file.px[c])]]

\* Content taken as: no channel is 255, and some opacity.
IsContentNoChannelFull(pixel) ==
    /\ pixel.r # 255 /\ pixel.g # 255 /\ pixel.b # 255
    /\ pixel.a > 0

\* One entry of non_white & non_transparent.
IsContent(pixel) ==
    /\ ~(pixel.r = 255 /\ pixel.g = 255 /\ pixel.b = 255)
    /\ pixel.a > 0

\* The positions where content_mask is True.
content_mask(im) == {c \in Coords(im.width, im.height) : IsContent(im.px[c])}

\* The box with bottom and right one past the last row and column.
BoundingBoxPastTheEnd(cm) ==
    [top |-> SetMin({c[2] : c \in cm}), bottom |-> SetMax({c[2] : c \in cm}) + 1,
     left |-> SetMin({c[1] : c \in cm}), right |-> SetMax({c[1] : c \in cm}) + 1]

\* top, bottom, left, right: the first and last row and column holding a
\* True entry of the mask.
BoundingBox(cm) ==
    [top |-> SetMin({c[2] : c \in cm}), bottom |-> SetMax({c[2] : c \in cm}),
     left |-> SetMin({c[1] : c \in cm}), right |-> SetMax({c[1] : c \in cm})]

\* The margin of the box's larger side counted in pixels.
MarginOfPixelCount(mp, box) ==
    (mp.num * Max2(box.right - box.left + 1, box.bottom - box.top + 1)) \div mp.den

\* int(max(margin_percent * width, margin_percent * height)) with
\* width = right - left and height = bottom - top; the fraction is
\* nonnegative, so int() is the floor.
Margin(mp, box) ==
    Max2(mp.num * (box.right - box.left), mp.num * (box.bottom - box.top)) \div mp.den

\* The box moved out by the margin on every edge, clamped at 0 only.
ExpandAndClampAtZero(box, m, im) ==
    [left |-> Max2(0, box.left - m), top |-> Max2(0, box.top - m),
     right |-> box.right + m, bottom |-> box.bottom + m]

\* The box moved out by the margin on every edge and clamped to the image.
ExpandAndClamp(box, m, im) ==
    [left |-> Max2(0, box.left - m), top |-> Max2(0, box.top - m),
     right |-> Min2(im.width, box.right + m),
     bottom |-> Min2(im.height, box.bottom + m)]

\* img.crop((left, top, right, bottom)): the pixels with left <= x < right
\* and top <= y < bottom; a position outside the image is transparent black.
crop(im, cb) ==
    [width |-> cb.right - cb.left, height |-> cb.bottom - cb.top,
     px |-> [c \in Coords(cb.right - cb.left, cb.bottom - cb.top) |->
                LET at == <<c[1] + cb.left, c[2] + cb.top>>
                IN  IF at \in DOMAIN im.px THEN im.px[at]
                    ELSE [r |-> 0, g |-> 0, b |-> 0, a |-> 0]]]

\* Image.save raises: an RGBA image cannot be written as JPEG, and an image
\* with no pixels cannot be encoded.
SaveRaises(format, im) ==
    \/ format = "JPEG"
    \/ im.width = 0
    \/ im.height = 0

\* The cropper is called on a named file or on any image with sides up to
\* MaxSide; the duplicate finder is not run.
CropInit ==
    /\ \/ image_file \in NamedFiles
       \/ \E format \in {"PNG", "JPEG"}, w \in 1..MaxSide, h \in 1..MaxSide :
              \E px \in [Coords(w, h) -> FilePixels(format)] :
                  image_file = ImageFile(format, w, h, px)
    /\ file_at_call = image_file
    /\ margin_percent \in Margins
    /\ img = [width |-> 0, height |-> 0, px |-> <<>>]
    /\ mask = {}
    /\ bbox = [top |-> 0, bottom |-> 0, left |-> 0, right |-> 0]
    /\ margin = 0
    /\ crop_box = [left |-> 0, top |-> 0, right |-> 0, bottom |-> 0]
    /\ ret = "None"
    /\ calls = 0
    /\ saved_sizes = <<>>
    /\ OnlyCrop

\* A call is made while the call budget lasts.
CropCalled ==
    /\ ENABLE_CROPPING
    /\ pc = "off"
    /\ calls < MaxCalls
    /\ calls' = calls + 1
    /\ file_at_call' = image_file
    /\ UNCHANGED margin_percent
    /\ UNCHANGED outsideCrop

\* Image.open or the decoding raises; the handler returns False.
CropOpenFails ==
    /\ CropCalled
    /\ image_file.kind # "image"
    /\ ret' = "False"
    /\ UNCHANGED <<image_file, img, mask, bbox, margin, crop_box, saved_sizes>>

\* The no-content branch that writes the decoded image back before returning.
CropNoContentSaves ==
    /\ CropCalled
    /\ image_file.kind = "image"
    /\ img' = Decode(image_file)
    /\ mask' = content_mask(img')
    /\ mask' = {}
    /\ image_file' = IF SaveRaises(image_file.format, img')
                     THEN TruncatedFile(image_file.format)
                     ELSE ImageFile(image_file.format, img'.width, img'.height, img'.px)
    /\ ret' = "False"
    /\ UNCHANGED <<bbox, margin, crop_box, saved_sizes>>

\* No entry of the mask is True: return False.
CropNoContent ==
    /\ CropCalled
    /\ image_file.kind = "image"
    /\ img' = Decode(image_file)
    /\ mask' = content_mask(img')
    /\ mask' = {}
    /\ ret' = "False"
    /\ UNCHANGED <<image_file, bbox, margin, crop_box, saved_sizes>>

\* The image has content: the box, the margin and the crop rectangle.
CropComputed ==
    /\ CropCalled
    /\ image_file.kind = "image"
    /\ img' = Decode(image_file)
    /\ mask' = content_mask(img')
    /\ mask' # {}
    /\ bbox' = BoundingBox(mask')
    /\ margin' = Margin(margin_percent, bbox')
    /\ crop_box' = ExpandAndClamp(bbox', margin', img')

\* The cropped image is saved over the file; return True.
CropSaved ==
    /\ CropComputed
    /\ ~SaveRaises(image_file.format, crop(img', crop_box'))
    /\ LET cropped_img == crop(img', crop_box')
       IN  /\ image_file' = ImageFile(image_file.format, cropped_img.width,
                                      cropped_img.height, cropped_img.px)
           /\ saved_sizes' = Append(saved_sizes,
                                    <<cropped_img.width, cropped_img.height>>)
    /\ ret' = "True"

\* save has opened the file for writing, which empties it, and then raises;
\* the handler returns False.
CropSaveFails ==
    /\ CropComputed
    /\ SaveRaises(image_file.format, crop(img', crop_box'))
    /\ image_file' = TruncatedFile(image_file.format)
    /\ ret' = "False"
    /\ UNCHANGED saved_sizes

CropNext ==
    \/ CropOpenFails
    \/ CropNoContent
    \/ CropSaved
    \/ CropSaveFails

CropSpec == CropInit /\ [][CropNext]_vars

(* ---------------------------------------------------------------------- *)
(* resize_images                                                           *)
(* ---------------------------------------------------------------------- *)

\* What an original is to the resizer: an image within max_dim, a larger
\* image, a larger image in a mode the output format cannot hold (the save
\* raises), or a file Image.open rejects.
Shapes == {"small", "large", "unsaveable", "corrupt"}

\* No file at the output path.
Absent == [state |-> "absent", mtime |-> 0]

\* The output exists.
exists(out) == out.state # "absent"

\* The comparison with the buffer dropped and made strict.
UpToDateStrict(orig, out) == orig.mtime < out.mtime

\* original_mtime <= output_mtime + 1
UpToDate(orig, out) == orig.mtime <= out.mtime + 1

\* The resizer is run on a directory of up to MaxImages images, none
\* modified after the clock starts, with no output yet; an input directory
\* that does not exist holds no image.
ResizeInit ==
    /\ input_ok \in BOOLEAN
    /\ \E n \in 0..MaxImages :
          /\ input_ok \/ n = 0
          /\ originals \in [1..n -> [mtime : {0}, shape : Shapes]]
          /\ outputs = [i \in 1..n |-> Absent]
    /\ now = 0
    /\ pillow_removes \in BOOLEAN
    /\ force_overwrite = FALSE
    /\ rs_pc = "idle"
    /\ rs_i = 0
    /\ processed = {}
    /\ written = {}
    /\ modified_since = {}
    /\ touched = FALSE
    /\ runs = 0
    /\ OnlyResize

\* A second passes between two runs.
Tick ==
    /\ rs_pc = "idle"
    /\ now < MaxTime
    /\ now' = now + 1
    /\ UNCHANGED <<originals, outputs, pillow_removes, input_ok, force_overwrite,
                   rs_pc, rs_i, processed, written, modified_since, touched, runs>>
    /\ UNCHANGED outsideResize

\* An original is modified between two runs.
Touch ==
    /\ rs_pc = "idle"
    /\ \E i \in DOMAIN originals :
          /\ originals[i].mtime < now
          /\ originals' = [originals EXCEPT ![i].mtime = now]
          /\ modified_since' = modified_since \cup {i}
    /\ touched' = TRUE
    /\ UNCHANGED <<outputs, now, pillow_removes, input_ok, force_overwrite,
                   rs_pc, rs_i, processed, written, runs>>
    /\ UNCHANGED outsideResize

\* A call begins.
ResizeCalled ==
    /\ rs_pc = "idle"
    /\ runs < MaxRuns
    /\ force_overwrite' \in BOOLEAN
    /\ processed' = {}
    /\ written' = {}
    /\ UNCHANGED <<originals, outputs, now, pillow_removes, input_ok,
                   modified_since, touched>>
    /\ UNCHANGED outsideResize

\* input_dir does not exist: return.
ResizeBadInput ==
    /\ ResizeCalled
    /\ ~input_ok
    /\ runs' = runs + 1
    /\ UNCHANGED <<rs_pc, rs_i>>

\* No image file found: return.
ResizeNoImages ==
    /\ ResizeCalled
    /\ input_ok
    /\ DOMAIN originals = {}
    /\ runs' = runs + 1
    /\ UNCHANGED <<rs_pc, rs_i>>

\* The images are listed and the loop is entered.
ResizeScan ==
    /\ ResizeCalled
    /\ input_ok
    /\ DOMAIN originals # {}
    /\ rs_pc' = "loop"
    /\ rs_i' = 1
    /\ UNCHANGED runs

\* The loop moves to the next file, or the run returns after the last one.
NextFile ==
    /\ rs_pc = "loop"
    /\ IF rs_i < Len(originals)
       THEN rs_i' = rs_i + 1 /\ UNCHANGED <<rs_pc, runs>>
       ELSE rs_i' = 0 /\ rs_pc' = "idle" /\ runs' = runs + 1
    /\ UNCHANGED <<originals, now, pillow_removes, input_ok, force_overwrite, touched>>
    /\ UNCHANGED outsideResize

\* The output exists and the run is not forced: the mtimes are compared.
ChecksMtime == exists(outputs[rs_i]) /\ ~force_overwrite

\* The output is up to date: continue.
ResizeSkip ==
    /\ NextFile
    /\ ChecksMtime
    /\ UpToDate(originals[rs_i], outputs[rs_i])
    /\ UNCHANGED <<outputs, processed, written, modified_since>>

\* stat raises OSError: continue.
ResizeStatError ==
    /\ NextFile
    /\ ChecksMtime
    /\ UNCHANGED <<outputs, processed, written, modified_since>>

\* The file is processed: the try block of line 73 is entered.
Processes ==
    /\ NextFile
    /\ ChecksMtime => ~UpToDate(originals[rs_i], outputs[rs_i])
    /\ processed' = processed \cup {rs_i}

\* Image.open raises.
ResizeOpenFails ==
    /\ Processes
    /\ originals[rs_i].shape = "corrupt"
    /\ UNCHANGED <<outputs, written, modified_since>>

\* The image is within max_dim: shutil.copy2 copies it with its mtime.
ResizeCopy ==
    /\ Processes
    /\ originals[rs_i].shape = "small"
    /\ outputs' = [outputs EXCEPT ![rs_i] =
                      [state |-> "copy", mtime |-> originals[rs_i].mtime]]
    /\ written' = written \cup {rs_i}
    /\ modified_since' = modified_since \ {rs_i}

\* The image is resized and saved.
ResizeSave ==
    /\ Processes
    /\ originals[rs_i].shape = "large"
    /\ outputs' = [outputs EXCEPT ![rs_i] = [state |-> "resized", mtime |-> now]]
    /\ written' = written \cup {rs_i}
    /\ modified_since' = modified_since \ {rs_i}

\* save opens the output file and raises: a file that was there is left
\* empty, a file save created is removed or left empty.
ResizeSaveFails ==
    /\ Processes
    /\ originals[rs_i].shape = "unsaveable"
    /\ IF ~exists(outputs[rs_i]) /\ pillow_removes
       THEN UNCHANGED <<outputs, written, modified_since>>
       ELSE /\ outputs' = [outputs EXCEPT ![rs_i] = [state |-> "empty", mtime |-> now]]
            /\ written' = written \cup {rs_i}
            /\ modified_since' = modified_since \ {rs_i}

ResizeNext ==
    \/ Tick
    \/ Touch
    \/ ResizeBadInput
    \/ ResizeNoImages
    \/ ResizeScan
    \/ ResizeSkip
    \/ ResizeStatError
    \/ ResizeOpenFails
    \/ ResizeCopy
    \/ ResizeSave
    \/ ResizeSaveFails

ResizeSpec == ResizeInit /\ [][ResizeNext]_vars

(* ---------------------------------------------------------------------- *)
(* create_review_files (extract-goodreads.py, parse_goodreads_export.py)   *)
(* ---------------------------------------------------------------------- *)

\* The float pandas puts in an empty cell.
NaN == "NaN"

\* The "My Review" cells: empty, whitespace only, text, and HTML that
\* renders to nothing.
ReviewCells == {NaN, "   ", "Great.", "<br>"}

\* Title and author cells, as the words and punctuation marks they are made of.
TitleCells == {<<"Dune">>, <<"Dune", "1">>, <<"!">>}
AuthorCells == {<<"Herbert">>, <<"!">>}

\* The rows of the CSV.
Rows == [review : ReviewCells, title : TitleCells, author : AuthorCells,
         book_id : {"7"}]

\* Files that may be in the output directory before the run.
OldFiles ==
    {[name |-> <<"dune", "herbert">>, row |-> 0, content |-> "old"],
     [name |-> <<"dune", "1">>, row |-> 0, content |-> "old"]}

\* astype(str) and str(): NaN becomes the text "nan".
str(v) == IF v = NaN THEN "nan" ELSE v

\* pd.isna
isna(v) == v = NaN

\* str.strip
strip(t) ==
    IF t \in {"   ", "\n\n"} THEN ""
    ELSE IF t = "Great.\n\n" THEN "Great."
    ELSE t

\* html2text: the markup is dropped, a paragraph ends with a blank line.
html2text(t) == IF t = "<br>" THEN "\n\n" ELSE t \o "\n\n"

\* str.lower on a word.
lower(w) ==
    CASE w = "Dune" -> "dune"
      [] w = "Herbert" -> "herbert"
      [] OTHER -> w

\* re.sub(r'[^\w\s-]', '', ...) drops the punctuation, re.sub(r'[-\s]+', '-',
\* ...).lower() joins the words that remain.
IsWord(w) == w # "!"
Sanitize(cell) ==
    LET words == SelectSeq(cell, IsWord)
    IN  [i \in 1..Len(words) |-> lower(words[i])]

\* title_for_filename, with its fallback.
title_for_filename(row) ==
    IF Sanitize(row.title) = <<>> THEN <<"book", "id", row.book_id>>
    ELSE Sanitize(row.title)

\* The first filename tried.
BaseName(row) ==
    IF Sanitize(row.author) # <<>>
    THEN title_for_filename(row) \o Sanitize(row.author)
    ELSE title_for_filename(row)

\* The decimal form of the counter.
Decimal == <<"1", "2", "3", "4", "5", "6", "7", "8", "9">>

\* The filename with the counter appended.
Suffixed(base, counter) == base \o <<Decimal[counter]>>

Names(d) == {f.name : f \in d}

RECURSIVE Probe(_, _, _, _)
Probe(base, names, filename, counter) ==
    IF filename \in names
    THEN Probe(base, names, Suffixed(base, counter), counter + 1)
    ELSE filename

\* The first name is taken whether or not it exists.
FreeNameUnchecked(base, names) == base

\* while os.path.exists(filename): the first of base, base-1, base-2, ...
\* that does not exist.
FreeName(base, names) == Probe(base, names, base, 1)

\* open(filename, 'w') and the writes: the file holds the content, whatever
\* was there before.
WriteFile(d, name, k, content) ==
    {f \in d : f.name # name} \cup {[name |-> name, row |-> k, content |-> content]}

\* The row indices of df[df['My Review'].astype(str).str.strip() != ''].
RECURSIVE Filter(_, _)
Filter(rows, k) ==
    IF k > Len(rows) THEN <<>>
    ELSE IF strip(str(rows[k].review)) # ""
         THEN <<k>> \o Filter(rows, k + 1)
         ELSE Filter(rows, k + 1)

\* One of the two scripts is run on a CSV of up to MaxRows rows.
ReviewInit ==
    /\ script \in {"extract", "parse"}
    /\ csv_found \in BOOLEAN
    /\ \E n \in 0..MaxRows :
          /\ csv_found \/ n = 0
          /\ df \in [1..n -> Rows]
    /\ disk0 \in SUBSET OldFiles
    /\ disk = disk0
    /\ rv_pc = "idle"
    /\ todo = <<>>
    /\ created = <<>>
    /\ files_created = 0
    /\ OnlyReview

\* read_csv raises FileNotFoundError: return.
ReviewCsvMissing ==
    /\ rv_pc = "idle"
    /\ ~csv_found
    /\ rv_pc' = "done"
    /\ UNCHANGED <<script, csv_found, df, disk0, disk, todo, created, files_created>>
    /\ UNCHANGED outsideReview

\* extract-goodreads.py: no row passes the filter.
ExtractNoReviews ==
    /\ script = "extract"
    /\ rv_pc = "idle"
    /\ csv_found
    /\ Filter(df, 1) = <<>>
    /\ rv_pc' = "done"
    /\ UNCHANGED <<script, csv_found, df, disk0, disk, todo, created, files_created>>
    /\ UNCHANGED outsideReview

\* extract-goodreads.py: the rows that pass the filter are kept.
ExtractFilter ==
    /\ script = "extract"
    /\ rv_pc = "idle"
    /\ csv_found
    /\ Filter(df, 1) # <<>>
    /\ todo' = Filter(df, 1)
    /\ rv_pc' = "loop"
    /\ UNCHANGED <<script, csv_found, df, disk0, disk, created, files_created>>
    /\ UNCHANGED outsideReview

\* parse_goodreads_export.py: the loop over all rows is entered.
ParseStart ==
    /\ script = "parse"
    /\ rv_pc = "idle"
    /\ csv_found
    /\ todo' = [k \in 1..Len(df) |-> k]
    /\ rv_pc' = IF Len(df) = 0 THEN "done" ELSE "loop"
    /\ UNCHANGED <<script, csv_found, df, disk0, disk, created, files_created>>
    /\ UNCHANGED outsideReview

\* The loop moves to the next row, or the function returns after the last.
NextRow ==
    /\ rv_pc = "loop"
    /\ todo' = Tail(todo)
    /\ rv_pc' = IF Tail(todo) = <<>> THEN "done" ELSE "loop"
    /\ UNCHANGED <<script, csv_found, df, disk0>>
    /\ UNCHANGED outsideReview

\* The review of the row is written to the first free filename.
Writes(content) ==
    LET k == Head(todo)
        filename == FreeName(BaseName(df[k]), Names(disk))
    IN  /\ disk' = WriteFile(disk, filename, k, content)
        /\ created' = Append(created, [name |-> filename, row |-> k])

\* extract-goodreads.py: one row of reviews_df.
ExtractWrite ==
    /\ script = "extract"
    /\ NextRow
    /\ Writes(strip(str(df[Head(todo)].review)))
    /\ UNCHANGED files_created

\* The row of parse_goodreads_export.py has nothing to write.
NothingToWrite(row) ==
    \/ isna(row.review)
    \/ strip(str(row.review)) = ""
    \/ strip(html2text(strip(str(row.review)))) = ""

\* parse_goodreads_export.py: continue.
ParseSkip ==
    /\ script = "parse"
    /\ NextRow
    /\ NothingToWrite(df[Head(todo)])
    /\ UNCHANGED <<disk, created, files_created>>

\* parse_goodreads_export.py: the row is written.
ParseWrite ==
    /\ script = "parse"
    /\ NextRow
    /\ ~NothingToWrite(df[Head(todo)])
    /\ Writes(html2text(strip(str(df[Head(todo)].review))))
    /\ files_created' = files_created + 1

ReviewNext ==
    \/ ReviewCsvMissing
    \/ ExtractNoReviews
    \/ ExtractFilter
    \/ ExtractWrite
    \/ ParseStart
    \/ ParseSkip
    \/ ParseWrite

ReviewSpec == ReviewInit /\ [][ReviewNext]_vars

(* ---------------------------------------------------------------------- *)
(* gallery_server.py                                                       *)
(* ---------------------------------------------------------------------- *)

IMAGES_PER_PAGE == 100

\* The relative paths under ./imgs, in sorted order.
ServerPaths == <<"a.png", "b.jpg">>

Range(seq) == {seq[i] : i \in DOMAIN seq}

\* What a file under ./imgs holds: a drawing on a white background, a blank
\* white image, a JPEG photo, a drawing already cropped, nothing (an empty
\* file), or no file at all.
StoredKinds == {"drawing", "blank", "photo", "absent"}

\* get_all_image_paths: the files with an image extension, sorted.
get_all_image_paths(dir) ==
    SelectSeq(ServerPaths, LAMBDA p : dir[p] # "absent")

\* x in list
InList(x, list) == \E i \in DOMAIN list : list[i] = x

\* crop_image_to_content on a file of ./imgs: a drawing is cropped and saved;
\* a blank image is left alone; a photo is converted to RGBA, which cannot be
\* saved as JPEG, after the file was opened for writing; an empty or missing
\* file cannot be opened.
crop_image_to_content(file) ==
    CASE file \in {"drawing", "cropped"} -> [success |-> TRUE, file |-> "cropped"]
      [] file = "photo" -> [success |-> FALSE, file |-> "empty"]
      [] OTHER -> [success |-> FALSE, file |-> file]

\* total_pages rounded down.
TotalPagesFloor(total_images) == total_images \div IMAGES_PER_PAGE

\* total_pages = (total_images + IMAGES_PER_PAGE - 1) // IMAGES_PER_PAGE
TotalPages(total_images) ==
    (total_images + IMAGES_PER_PAGE - 1) \div IMAGES_PER_PAGE

\* 1 <= page_num <= total_pages
PageFound(list, page_num) ==
    1 <= page_num /\ page_num <= TotalPages(Len(list))

\* list[start:end] for 0 <= start <= end <= len(list)
Slice(list, start, end) == SubSeq(list, start + 1, end)

\* The page of the list that the gallery templates are given.
Paginate(list, page_num) ==
    LET total_images == Len(list)
        total_pages == TotalPages(total_images)
        start_index == (page_num - 1) * IMAGES_PER_PAGE
        end_index == Min2(start_index + IMAGES_PER_PAGE, total_images)
    IN  [images_on_page |-> Slice(list, start_index, end_index),
         current_page |-> page_num,
         total_pages |-> total_pages,
         has_next |-> page_num < total_pages,
         has_prev |-> page_num > 1]

\* The page numbers requested of a list: its pages, and one number on
\* either side of them.
PageNums(list) == 0..(TotalPages(Len(list)) + 1)

\* The tag names requested and submitted.
TagNames == {"a", "b"}

\* The items of a submitted form: drawings_count is text, tags is the list of
\* names between the commas of tags_<i>.
ItemFields ==
    [path : Range(ServerPaths), title : {"new"}, drawings_count : {"1", "x"},
     tags : {<<>>, <<"a">>, <<"a", "a">>}]

\* The forms of up to MaxItems items.
Forms == UNION {[1..num_items -> ItemFields] : num_items \in 0..MaxItems}

\* int() raises ValueError on text that is not a number.
IsInt(text) == text # "x"
int(text) == IF text = "1" THEN 1 ELSE 0

\* The same tag is named twice.
HasDuplicate(names) ==
    \E i, k \in DOMAIN names : i # k /\ names[i] = names[k]

\* The upsert of one item and the replacement of its tags, in the session.
ApplyItem(session, item) ==
    [images |->
        [p \in DOMAIN session.images \cup {item.path} |->
            IF p = item.path
            THEN [title |-> item.title,
                  drawings_count |-> int(item.drawings_count),
                  tags |-> Range(item.tags)]
            ELSE session.images[p]],
     tags |-> session.tags \cup Range(item.tags)]

\* The loop over the items: the session after the last item, or the session
\* at the item that raised. Appending a tag twice to meta.tags raises when
\* the flush inserts the pair twice into image_tags (dup_raises).
RECURSIVE ProcessItems(_, _, _, _)
ProcessItems(items, i, session, dup_raises) ==
    IF i > Len(items) THEN [raised |-> FALSE, session |-> session]
    ELSE IF ~IsInt(items[i].drawings_count)
         THEN [raised |-> TRUE, session |-> session]
    ELSE IF HasDuplicate(items[i].tags) /\ dup_raises
         THEN [raised |-> TRUE, session |-> ApplyItem(session, items[i])]
    ELSE ProcessItems(items, i + 1, ApplyItem(session, items[i]), dup_raises)

\* What was flushed before the exception stays in the database.
RollbackKeepsFlushed(before, session) == session

\* session.rollback(): the database is as it was before the request.
Rollback(before, session) == before

\* A database in which a.png carries the tag a.
TaggedDb ==
    [images |-> [p \in {"a.png"} |->
                    [title |-> "old", drawings_count |-> 1, tags |-> {"a"}]],
     tags |-> {"a"}]

\* The metadata the database may hold when a form is posted.
StoredDbs ==
    {[images |-> im, tags |-> UNION {im[p].tags : p \in DOMAIN im}] :
        im \in UNION {[S -> [title : {"old"}, drawings_count : {1},
                             tags : {{}, {"a"}}]] :
                      S \in SUBSET Range(ServerPaths)}}

\* The server has started: the image list was scanned at import, and files
\* may have been added to or removed from ./imgs since. The client has a
\* form to post.
ServerInit ==
    /\ ADMIN_MODE \in BOOLEAN
    /\ image_dir \in [Range(ServerPaths) -> StoredKinds]
    /\ image_dir["a.png"] # "photo" /\ image_dir["b.jpg"] \in {"photo", "absent"}
    /\ \E at_import \in [Range(ServerPaths) -> {"drawing", "absent"}] :
          cached_image_list = get_all_image_paths(at_import)
    /\ db \in {EmptyDb, TaggedDb}
    /\ form \in Forms
    /\ response = NoResponse
    /\ served = {}
    /\ OnlyServer

\* The response to a request for page page_num of a list.
RespondPage(status, page_num, page) ==
    response' = [status |-> status, page_num |-> page_num, page |-> page]

\* The response of a route that takes no page number.
Respond(status, page) ==
    response' = [status |-> status, page_num |-> NoPageNum, page |-> page]

\* GET /gallery: the list is empty.
ReadGalleryNoImages ==
    /\ cached_image_list = <<>>
    /\ Respond(200, NoPage)
    /\ UNCHANGED <<ADMIN_MODE, image_dir, cached_image_list, db, form, served>>
    /\ UNCHANGED outsideServer

\* GET /gallery/{page_num}: no such page.
ReadGalleryNotFound ==
    /\ cached_image_list # <<>>
    /\ \E page_num \in PageNums(cached_image_list) :
          /\ ~PageFound(cached_image_list, page_num)
          /\ RespondPage(404, page_num, NoPage)
    /\ UNCHANGED <<ADMIN_MODE, image_dir, cached_image_list, db, form, served>>
    /\ UNCHANGED outsideServer

\* GET /gallery/{page_num}: the page is rendered.
ReadGallery ==
    /\ cached_image_list # <<>>
    /\ \E page_num \in PageNums(cached_image_list) :
          /\ PageFound(cached_image_list, page_num)
          /\ RespondPage(200, page_num, Paginate(cached_image_list, page_num))
          /\ served' = served \cup {Paginate(cached_image_list, page_num)}
    /\ UNCHANGED <<ADMIN_MODE, image_dir, cached_image_list, db, form>>
    /\ UNCHANGED outsideServer

\* GET /tags
ListTags ==
    /\ Respond(200, NoPage)
    /\ UNCHANGED <<ADMIN_MODE, image_dir, cached_image_list, db, form, served>>
    /\ UNCHANGED outsideServer

\* GET /tag/{tag_name}/{page_num}
TagGallery ==
    /\ \E tag_name \in TagNames, page_num \in PageNums(cached_image_list) :
          LET tagged_images ==
                  SelectSeq(cached_image_list,
                            LAMBDA p : /\ p \in DOMAIN db.images
                                       /\ tag_name \in db.images[p].tags)
          IN  IF tag_name \notin db.tags
              THEN RespondPage(404, page_num, NoPage)
              ELSE IF tagged_images = <<>>
              THEN RespondPage(200, page_num, NoPage)
              ELSE IF ~PageFound(tagged_images, page_num)
              THEN RespondPage(404, page_num, NoPage)
              ELSE RespondPage(200, page_num, Paginate(tagged_images, page_num))
    /\ UNCHANGED <<ADMIN_MODE, image_dir, cached_image_list, db, form, served>>
    /\ UNCHANGED outsideServer

\* GET /image/{image_path}
ReadSingleImage ==
    /\ \E image_path \in Range(ServerPaths) :
          Respond(IF InList(image_path, cached_image_list) THEN 200 ELSE 404,
                  NoPage)
    /\ UNCHANGED <<ADMIN_MODE, image_dir, cached_image_list, db, form, served>>
    /\ UNCHANGED outsideServer

\* GET /crop/{image_path}: the path is not in the list.
CropImageNotFound ==
    /\ \E image_path \in Range(ServerPaths) :
          /\ ~InList(image_path, cached_image_list)
          /\ Respond(404, NoPage)
    /\ UNCHANGED <<ADMIN_MODE, image_dir, cached_image_list, db, form, served>>
    /\ UNCHANGED outsideServer

\* GET /crop/{image_path}: the original is cropped in place, and the
\* redirect is the same whether or not the crop succeeded.
CropImage ==
    /\ \E image_path \in Range(ServerPaths) :
          /\ InList(image_path, cached_image_list)
          /\ image_dir' = [image_dir EXCEPT
                             ![image_path] = crop_image_to_content(@).file]
          /\ Respond(302, NoPage)
    /\ UNCHANGED <<ADMIN_MODE, cached_image_list, db, form, served>>
    /\ UNCHANGED outsideServer

\* GET /admin/edit/{page_num} with admin mode off.
EditPageForbidden ==
    /\ ~ADMIN_MODE
    /\ Respond(403, NoPage)
    /\ UNCHANGED <<ADMIN_MODE, image_dir, cached_image_list, db, form, served>>
    /\ UNCHANGED outsideServer

\* GET /admin/edit/{page_num}: no such page.
EditPageNotFound ==
    /\ ADMIN_MODE
    /\ \E page_num \in PageNums(cached_image_list) :
          /\ ~PageFound(cached_image_list, page_num)
          /\ RespondPage(404, page_num, NoPage)
    /\ UNCHANGED <<ADMIN_MODE, image_dir, cached_image_list, db, form, served>>
    /\ UNCHANGED outsideServer

\* GET /admin/edit/{page_num}: the edit form of the page is rendered.
EditPage ==
    /\ ADMIN_MODE
    /\ \E page_num \in PageNums(cached_image_list) :
          /\ PageFound(cached_image_list, page_num)
          /\ RespondPage(200, page_num, Paginate(cached_image_list, page_num))
    /\ UNCHANGED <<ADMIN_MODE, image_dir, cached_image_list, db, form, served>>
    /\ UNCHANGED outsideServer

\* POST /admin/edit/{page_num} with admin mode off.
SaveForbidden ==
    /\ ~ADMIN_MODE
    /\ Respond(403, NoPage)
    /\ UNCHANGED <<ADMIN_MODE, image_dir, cached_image_list, db, form, served>>
    /\ UNCHANGED outsideServer

\* POST /admin/edit/{page_num}: every item is applied and the commit succeeds.
SaveCommitted ==
    /\ ADMIN_MODE
    /\ \E dup_raises \in BOOLEAN :
          LET done == ProcessItems(form, 1, db, dup_raises)
          IN  /\ ~done.raised
              /\ db' = done.session
    /\ Respond(303, NoPage)
    /\ UNCHANGED <<ADMIN_MODE, image_dir, cached_image_list, form, served>>
    /\ UNCHANGED outsideServer

\* POST /admin/edit/{page_num}: an item raises, or the commit does
\* (commit_fails): rollback and HTTP 500.
SaveRolledBack ==
    /\ ADMIN_MODE
    /\ \E dup_raises \in BOOLEAN, commit_fails \in BOOLEAN :
          LET done == ProcessItems(form, 1, db, dup_raises)
          IN  /\ done.raised \/ commit_fails
              /\ db' = Rollback(db, done.session)
    /\ Respond(500, NoPage)
    /\ UNCHANGED <<ADMIN_MODE, image_dir, cached_image_list, form, served>>
    /\ UNCHANGED outsideServer

\* POST /refresh with admin mode off.
RefreshForbidden ==
    /\ ~ADMIN_MODE
    /\ Respond(403, NoPage)
    /\ UNCHANGED <<ADMIN_MODE, image_dir, cached_image_list, db, form, served>>
    /\ UNCHANGED outsideServer

\* POST /refresh: a downsizing run fails, the list is not rescanned.
RefreshFailed ==
    /\ ADMIN_MODE
    /\ Respond(500, NoPage)
    /\ UNCHANGED <<ADMIN_MODE, image_dir, cached_image_list, db, form, served>>
    /\ UNCHANGED outsideServer

\* POST /refresh: the downsized copies are made (in ./imgs-medium and
\* ./imgs-small) and the list is rescanned.
Refresh ==
    /\ ADMIN_MODE
    /\ cached_image_list' = get_all_image_paths(image_dir)
    /\ served' = IF cached_image_list' = cached_image_list THEN served ELSE {}
    /\ Respond(303, NoPage)
    /\ UNCHANGED <<ADMIN_MODE, image_dir, db, form>>
    /\ UNCHANGED outsideServer

ServerNext ==
    \/ ReadGalleryNoImages
    \/ ReadGalleryNotFound
    \/ ReadGallery
    \/ ListTags
    \/ TagGallery
    \/ ReadSingleImage
    \/ CropImageNotFound
    \/ CropImage
    \/ EditPageForbidden
    \/ EditPageNotFound
    \/ EditPage
    \/ SaveForbidden
    \/ SaveCommitted
    \/ SaveRolledBack
    \/ RefreshForbidden
    \/ RefreshFailed
    \/ Refresh

ServerSpec == ServerInit /\ [][ServerNext]_vars

\* The edit form alone: the files and the image list stay as they are.
SaveNext ==
    \/ SaveForbidden
    \/ SaveCommitted
    \/ SaveRolledBack

\* A form is posted to a server whose database holds any of StoredDbs.
SaveInit ==
    /\ ADMIN_MODE \in BOOLEAN
    /\ image_dir = [p \in Range(ServerPaths) |-> "drawing"]
    /\ cached_image_list = ServerPaths
    /\ db \in StoredDbs
    /\ form \in Forms
    /\ response = NoResponse
    /\ served = {}
    /\ OnlyServer

SaveSpec == SaveInit /\ [][SaveNext]_vars

\* The gallery of a list of up to MaxCached images, each path named by its
\* position in the sorted list, with admin mode on.
PageInit ==
    /\ ADMIN_MODE = TRUE
    /\ \E n \in 1..MaxCached :
          /\ cached_image_list = [i \in 1..n |-> i]
          /\ image_dir = [i \in 1..n |-> "drawing"]
    /\ db = EmptyDb
    /\ form = <<>>
    /\ response = NoResponse
    /\ served = {}
    /\ OnlyServer

PageNext ==
    \/ ReadGalleryNotFound
    \/ ReadGallery
    \/ EditPageNotFound
    \/ EditPage

PageSpec == PageInit /\ [][PageNext]_vars

(* ---------------------------------------------------------------------- *)
(* Vocabulary of the properties                                            *)
(* ---------------------------------------------------------------------- *)

\* Number of positions of s that hold x.
Count(s, x) == Cardinality({i \in DOMAIN s : s[i] = x})

\* Number of log lines with the given text.
CountLog(msg) == Cardinality({k \in DOMAIN log : log[k].msg = msg})

\* The files the scan has discovered.
ScannedSet == Range(images)

\* The fingerprint of a file of the starting directory under the run's mode.
Fingerprint(p) == image_hash(fs0, ~args.exact_match_only, p)

\* The members of group i as the scan listed them, in discovery order: the
\* entries of the discovery list that carry the group's fingerprint.
GroupMembers(i) ==
    SelectSeq(images, LAMBDA p : Fingerprint(p) = duplicates[i].hash)

\* Sum over the groups of the group size minus one.
RECURSIVE SumCandidates(_, _)
SumCandidates(dups, i) ==
    IF i = 0 THEN 0 ELSE (Len(dups[i].paths) - 1) + SumCandidates(dups, i - 1)

\* remove_duplicates has returned to main.
Returned == pc = "done" /\ result # NoResult

(* ---------------------------------------------------------------------- *)
(* Properties                                                              *)
(* ---------------------------------------------------------------------- *)

\* C1: the file chosen as the representative of a group (logged as
\* "Keeping") is never deleted during the run.
RepresentativeNeverDeleted ==
    \A k \in DOMAIN log : log[k].msg = "Keeping" => log[k].path \in DOMAIN fs

\* A file outside every duplicate group: the scan does not discover it, or
\* it has no fingerprint, or no other scanned file shares its fingerprint.
OutsideEveryGroup(p) ==
    \/ p \notin ScannedSet
    \/ Fingerprint(p) = None
    \/ \A q \in ScannedSet \ {p} : Fingerprint(q) # Fingerprint(p)

\* C2: a file outside every duplicate group still exists, unchanged: a file
\* the scan does not discover, a file without a fingerprint, and a scanned
\* file whose fingerprint no other scanned file shares.
FilesOutsideGroupsSurvive ==
    \A p \in DOMAIN fs0 :
        OutsideEveryGroup(p) => p \in DOMAIN fs /\ fs[p] = fs0[p]

\* C3: after a removal pass that is not a dry run, exactly one file of every
\* duplicate group still exists.
ExactlyOneSurvivesPerGroup ==
    (Returned /\ ~args.dry_run) =>
        \A i \in DOMAIN duplicates :
            Cardinality(Range(duplicates[i].paths) \cap DOMAIN fs) = 1

\* C4: with dry_run set the files and their contents are at every moment
\* what they were when the run started.
DryRunNeverMutates == args.dry_run => fs = fs0

\* C4 witness: a dry run that reported a candidate and returned.
DryRunReported == Returned /\ args.dry_run /\ CountLog("Would remove") > 0

\* C5: once a group is sorted, the retained member has the smallest
\* modification time of the group when keep_oldest is true and the largest
\* when it is false, and the candidates are all the other members.
RetainedIsOldestOrNewest ==
    pc = "candidate" =>
        LET members == GroupMembers(g)
        IN  /\ keep_path \in Range(members)
            /\ \A p \in Range(members) :
                  IF ~args.keep_newest
                  THEN fs0[keep_path].mtime <= fs0[p].mtime
                  ELSE fs0[keep_path].mtime >= fs0[p].mtime
            /\ \A p \in Paths :
                  Count(<<keep_path>> \o remove_paths, p) = Count(members, p)

\* C5 witness: a sorted group of three files whose retained member was not
\* the first in discovery order.
RetainedWasNotFirst ==
    /\ pc = "candidate"
    /\ Cardinality(Range(GroupMembers(g))) = 3
    /\ keep_path # GroupMembers(g)[1]

\* The current group is a group of exactly two files with distinct
\* modification times.
TwoFileGroup ==
    /\ pc = "candidate"
    /\ LET files == Range(GroupMembers(g))
       IN  /\ Cardinality(files) = 2
           /\ \A p, q \in files : p # q => fs0[p].mtime # fs0[q].mtime

\* C6: for a group of exactly two files with distinct modification times the
\* file this run retains differs from the file the other mode retains.
ModesRetainDifferentFiles ==
    TwoFileGroup =>
        keep_path # SortByMtime(fs0, GroupMembers(g), args.keep_newest)[1]

\* C6 witness: such a two-file group has been sorted.
TwoFileGroupSorted == TwoFileGroup /\ keep_path # NoPath

\* C7: the first count returned is the number of groups and the second the
\* number of files removed, which in a dry run is the number of files that
\* would be removed (the sum of the group sizes minus one).
ReturnsKeptAndRemovedCounts ==
    Returned =>
        /\ result[1] = Len(duplicates)
        /\ result[2] = IF args.dry_run
                       THEN SumCandidates(duplicates, Len(duplicates))
                       ELSE CountLog("Removed")

\* The scenario of the specification: the scan finds exactly a, b and c, b
\* has the bytes of a and is newer, c has other bytes; exact-match mode,
\* keep-oldest.
Scenario(a, b, c) ==
    /\ ScannedSet = {a, b, c}
    /\ Cardinality({a, b, c}) = 3
    /\ fs0[a].content # Unreadable
    /\ fs0[b].content = fs0[a].content
    /\ fs0[b].mtime > fs0[a].mtime
    /\ fs0[c].content # fs0[a].content
    /\ args.exact_match_only
    /\ ~args.keep_newest

\* A pass that was no dry run and in which no removal failed.
CleanPass == Returned /\ ~args.dry_run /\ CountLog("Failed to remove") = 0

FailureLogged ==
    /\ Len(log') = Len(log) + 1
    /\ log'[Len(log')].msg = "Failed to remove"

\* The loop of remove_duplicates moves on from candidate j of group g.
MovesToNextCandidate ==
    IF j < Len(remove_paths)
    THEN pc' = "candidate" /\ g' = g /\ j' = j + 1
    ELSE IF g < Len(duplicates)
         THEN pc' = "group" /\ g' = g + 1
         ELSE pc' = "return"

\* After a pass that was no dry run, every candidate of every group has been
\* attempted exactly as often as it is listed, and only the successful
\* removals are counted.
EveryCandidateAttempted ==
    (Returned /\ ~args.dry_run) =>
        /\ CountLog("Removed") + CountLog("Failed to remove")
              = SumCandidates(duplicates, Len(duplicates))
        /\ \A i \in DOMAIN duplicates :
              \A k \in 2..Len(duplicates[i].paths) :
                  \E m \in DOMAIN log :
                      /\ log[m].msg \in {"Removed", "Failed to remove"}
                      /\ log[m].path = duplicates[i].paths[k]
        /\ result[2] = CountLog("Removed")

\* C9: a failed removal is logged, leaves files_removed as it was and moves
\* the loop to the next candidate (of the same group, or of the next group);
\* a pass that returns has attempted every candidate of every group.
FailedRemovalDoesNotAbort ==
    /\ [][FailureLogged => (files_removed' = files_removed /\ MovesToNextCandidate)]_vars
    /\ []EveryCandidateAttempted

\* C9 witness: a pass returned after a removal failed before the last
\* candidate of the first of several groups.
ReturnedAfterEarlyFailure ==
    /\ Returned
    /\ Len(duplicates) > 1
    /\ \E m \in DOMAIN log :
          /\ log[m].msg = "Failed to remove"
          /\ \E n \in DOMAIN log : n > m /\ log[n].msg = "Keeping"
          /\ \E n \in DOMAIN log : n > m /\ log[n].msg = "Removed"

\* C10: a run started on a valid directory is never ended by a per-file
\* failure: it does not leave main through an uncaught exception.
ValidRunNeverAborts == pc # "crashed"

\* The scan is over.
Scanned == pc \notin {"main", "find", "exit1"}

\* No fingerprint can be computed for the file: it cannot be read, or the
\* mode is perceptual and it does not decode as an image.
Unhashable(p) ==
    \/ fs0[p].content = Unreadable
    \/ ~args.exact_match_only /\ fs0[p].content = Undecodable

\* Position k of the discovery list holds a file with a fingerprint that
\* another position holds too.
SharesFingerprint(k) ==
    /\ ~Unhashable(images[k])
    /\ \E m \in DOMAIN images :
          m # k /\ ~Unhashable(images[m])
                /\ Fingerprint(images[m]) = Fingerprint(images[k])

\* Some group lists path p.
InSomeGroup(p) == \E i \in DOMAIN duplicates : p \in Range(duplicates[i].paths)

\* C11: a scanned file whose fingerprint cannot be computed gets a warning
\* and is in no group, and the files after it in the discovery list are
\* still fingerprinted and grouped.
UnhashableIsSkipped ==
    Scanned =>
        \A i \in DOMAIN images :
            Unhashable(images[i]) =>
                /\ \E k \in DOMAIN log :
                      log[k].level = "WARNING" /\ log[k].path = images[i]
                /\ ~InSomeGroup(images[i])
                /\ \A k \in DOMAIN images :
                      (k > i /\ SharesFingerprint(k)) => InSomeGroup(images[k])

\* C11 witness: an unhashable file was scanned before two distinct files
\* that were then found as a group.
UnhashableBeforeGroup ==
    /\ Scanned
    /\ \E i, k, m \in DOMAIN images :
          /\ i < k /\ k < m
          /\ images[k] # images[m]
          /\ Unhashable(images[i])
          /\ \E n \in DOMAIN duplicates :
                {images[k], images[m]} \subseteq Range(duplicates[n].paths)

\* C12: every group has at least two member files, the members of a group
\* all have the group's fingerprint, and every fingerprint that two or more
\* scanned files share is a group (a fingerprint of one file is discarded).
GroupsAreDuplicateGroups ==
    Scanned =>
        /\ \A i \in DOMAIN duplicates :
              /\ Cardinality(Range(duplicates[i].paths)) >= 2
              /\ \A p \in Range(duplicates[i].paths) :
                    Fingerprint(p) = duplicates[i].hash
        /\ \A p, q \in ScannedSet :
              (p # q /\ ~Unhashable(p) /\ Fingerprint(p) = Fingerprint(q)) =>
                  \E i \in DOMAIN duplicates :
                      {p, q} \subseteq Range(duplicates[i].paths)

\* Number of removals the run has attempted on path p.
DeleteAttempts(p) ==
    Cardinality({k \in DOMAIN log :
                    /\ log[k].msg \in {"Removed", "Failed to remove"}
                    /\ log[k].path = p})

\* C14: every path occurs at most once in the discovery list, is in at most
\* one group, occurs at most once in that group, and is the target of at
\* most one removal.
TouchedAtMostOnce ==
    \A p \in Paths :
        /\ Count(images, p) <= 1
        /\ Cardinality({i \in DOMAIN duplicates : p \in Range(duplicates[i].paths)}) <= 1
        /\ \A i \in DOMAIN duplicates : Count(duplicates[i].paths, p) <= 1
        /\ DeleteAttempts(p) <= 1

\* The positions of find_images' result hold strictly increasing paths: the
\* list is in lexical order and names no path twice.
StrictlySorted(s) == \A i, k \in DOMAIN s : i < k => s[i] < s[k]

\* C13: find_images returns, in lexical path order, exactly the files whose
\* extension is one of the image extensions in any mix of upper and lower
\* case.
FindImagesFindsEveryImage ==
    Scanned =>
        /\ StrictlySorted(images)
        /\ Range(images) =
              {p \in DOMAIN fs0 :
                  \E i \in DOMAIN image_extensions :
                      fs0[p].ext.base = image_extensions[i].base}

(* ---------------------------------------------------------------------- *)
(* The cropper's properties                                                *)
(* ---------------------------------------------------------------------- *)

\* A call of crop_image_to_content has returned.
CropReturned == pc = "off" /\ calls > 0

\* The pixel of the file the last call was made on is white, or it has an
\* alpha channel and is fully transparent.
IsBackground(q) ==
    \/ q.r = 255 /\ q.g = 255 /\ q.b = 255
    \/ "a" \in DOMAIN q /\ q.a = 0

\* The positions of the content pixels of the file the last call was made on.
ContentOfFile ==
    {c \in DOMAIN file_at_call.px : ~IsBackground(file_at_call.px[c])}

\* The last call was made on a decodable image that has content.
CalledOnContent ==
    /\ CropReturned
    /\ file_at_call.kind = "image"
    /\ ContentOfFile # {}

\* Width and height, in pixels, of the content bounding box.
box_width ==
    SetMax({c[1] : c \in ContentOfFile}) - SetMin({c[1] : c \in ContentOfFile}) + 1
box_height ==
    SetMax({c[2] : c \in ContentOfFile}) - SetMin({c[2] : c \in ContentOfFile}) + 1

Abs(x) == IF x >= 0 THEN x ELSE 0 - x

\* C15: a call either saves the complete cropped image and returns True, or
\* returns False and leaves the file exactly as it was when the call started.
CropIsAllOrNothing ==
    CropReturned =>
        \/ ret = "True" /\ image_file.kind = "image"
        \/ ret = "False" /\ image_file = file_at_call

\* C16: called on an image none of whose pixels is content, the cropper
\* returns False and the file is unchanged.
NoContentLeavesFile ==
    (CropReturned /\ file_at_call.kind = "image" /\ ContentOfFile = {}) =>
        ret = "False" /\ image_file = file_at_call

\* A call has returned on an image made of white pixels and of transparent
\* non-white pixels only.
NoContentCallReturned ==
    /\ CropReturned
    /\ file_at_call.kind = "image"
    /\ ContentOfFile = {}
    /\ \E c \in DOMAIN file_at_call.px : file_at_call.px[c] = White
    /\ \E c \in DOMAIN file_at_call.px : file_at_call.px[c] = Clear
    /\ ret = "False"

\* round(n / d), ties going to the even integer.
Round(n, d) ==
    LET q == n \div d
        r == n % d
    IN  IF 2 * r < d THEN q
        ELSE IF 2 * r > d THEN q + 1
        ELSE IF q % 2 = 0 THEN q ELSE q + 1

\* The crop rectangle is the first and last content column and row moved out
\* by the margin m and clamped to the image.
MarginOnFourEdges(m) ==
    LET xs == {c[1] : c \in ContentOfFile}
        ys == {c[2] : c \in ContentOfFile}
    IN  /\ crop_box.left = Max2(0, SetMin(xs) - m)
        /\ crop_box.top = Max2(0, SetMin(ys) - m)
        /\ crop_box.right = Min2(file_at_call.width, SetMax(xs) + m)
        /\ crop_box.bottom = Min2(file_at_call.height, SetMax(ys) + m)

CropContainsAllContent ==
    CalledOnContent =>
        \A c \in ContentOfFile :
            /\ crop_box.left <= c[1] /\ c[1] < crop_box.right
            /\ crop_box.top <= c[2] /\ c[2] < crop_box.bottom

\* C19: the 100 x 100 image with a 10 x 10 block at (40, 40), cropped with
\* margin 0.10, is cropped to the rectangle (39, 39)-(51, 51) within one
\* pixel on every edge.
ScenarioCropsToBlockPlusMargin ==
    (CropReturned /\ calls = 1 /\ file_at_call = ScenarioFile
        /\ margin_percent = [num |-> 1, den |-> 10]) =>
        /\ ret = "True"
        /\ Abs(crop_box.left - 39) <= 1
        /\ Abs(crop_box.top - 39) <= 1
        /\ Abs(crop_box.right - 51) <= 1
        /\ Abs(crop_box.bottom - 51) <= 1

\* C20: once an image is the result of a crop, cropping it again with the
\* same margin keeps its size within one pixel of that result, however often
\* the crop is repeated.
CropIsIdempotent ==
    \A k \in DOMAIN saved_sizes :
        /\ Abs(saved_sizes[k][1] - saved_sizes[1][1]) <= 1
        /\ Abs(saved_sizes[k][2] - saved_sizes[1][2]) <= 1

ContentIffNotWhiteAndVisible ==
    (CropReturned /\ file_at_call.kind = "image") =>
        \A c \in DOMAIN img.px :
            LET q == img.px[c]
            IN  /\ c \in mask <=> ((q.r < 255 \/ q.g < 255 \/ q.b < 255) /\ q.a >= 1)
                /\ q \in {White, Clear} => c \notin mask

\* The image holding a pixel of every kind has been classified.
PaletteClassified ==
    /\ CropReturned
    /\ file_at_call = PaletteFile
    /\ mask = {<<2, 1>>, <<4, 1>>, <<5, 1>>}

\* Some content pixel lies in row y / in column x of the file the call was
\* made on.
RowHasContent(y) == \E c \in ContentOfFile : c[2] = y
ColumnHasContent(x) == \E c \in ContentOfFile : c[1] = x

\* C23: top and bottom are the first and last row holding a content pixel,
\* left and right the first and last column holding one.
BoxIsMinimalPerAxis ==
    CalledOnContent =>
        /\ RowHasContent(bbox.top) /\ RowHasContent(bbox.bottom)
        /\ ColumnHasContent(bbox.left) /\ ColumnHasContent(bbox.right)
        /\ \A c \in ContentOfFile :
              /\ bbox.top <= c[2] /\ c[2] <= bbox.bottom
              /\ bbox.left <= c[1] /\ c[1] <= bbox.right

\* A box has been computed for content that has background on every side.
BoxInsideBackground ==
    /\ CalledOnContent
    /\ 0 < bbox.left /\ bbox.left < bbox.right
    /\ bbox.right < file_at_call.width - 1
    /\ 0 < bbox.top /\ bbox.top < bbox.bottom
    /\ bbox.bottom < file_at_call.height - 1

(* ---------------------------------------------------------------------- *)
(* The resizer's properties                                                *)
(* ---------------------------------------------------------------------- *)

\* A run of the resizer has returned.
ResizeReturned == rs_pc = "idle" /\ runs > 0

\* The loop is at a file whose output exists and whose original has not
\* been modified since that output was produced, in a run that is not forced.
AtUnmodified ==
    /\ rs_pc = "loop"
    /\ ~force_overwrite
    /\ outputs[rs_i].state # "absent"
    /\ rs_i \notin modified_since

\* C24, the step: without force_overwrite the output of an unmodified
\* original is not rewritten.
UnmodifiedNotRewritten ==
    [][AtUnmodified => (outputs' = outputs /\ written' = written)]_vars

\* C24, the runs: a second run that is not forced and follows the first with
\* no original modified writes no output file, and a forced run processes
\* every image.
SecondRunWritesNothing ==
    /\ (ResizeReturned /\ runs = 2 /\ ~force_overwrite /\ ~touched) => written = {}
    /\ (ResizeReturned /\ force_overwrite /\ input_ok) => processed = DOMAIN originals

\* C24: resize_images without force_overwrite leaves an existing output alone
\* when its original has not been modified since, so a second run right after
\* a first writes nothing; with force_overwrite every image is processed.
ResizeSkipsUpToDate == UnmodifiedNotRewritten /\ []SecondRunWritesNothing

\* A second, unforced run has returned with nothing written, over a copied
\* and a resized output.
SecondRunReturned ==
    /\ ResizeReturned /\ runs = 2 /\ ~force_overwrite /\ ~touched
    /\ written = {}
    /\ \E i, k \in DOMAIN outputs :
          outputs[i].state = "copy" /\ outputs[k].state = "resized"

(* ---------------------------------------------------------------------- *)
(* The review extractors' properties                                       *)
(* ---------------------------------------------------------------------- *)

\* The script has returned.
ReviewDone(which) == script = which /\ rv_pc = "done"

\* The rows a file was written for.
RowsWritten == {created[i].row : i \in DOMAIN created}

\* C25: extract-goodreads.py writes no file for a row whose "My Review" cell
\* is missing or blank.
ExtractSkipsEmptyReviews ==
    ReviewDone("extract") =>
        \A k \in DOMAIN df : df[k].review \in {NaN, "   "} => k \notin RowsWritten

\* The rows of parse_goodreads_export.py that have a review to write.
Qualifying == {k \in DOMAIN df : df[k].review \notin {NaN, "   ", "<br>"}}

\* C28: parse_goodreads_export.py never overwrites a file: the files that
\* were there are untouched, every file written is still there under its own
\* name, and n qualifying rows have created n distinct files.
ParseNeverOverwrites ==
    script = "parse" =>
        /\ disk0 \subseteq disk
        /\ \A i \in DOMAIN created :
              \E f \in disk : f.name = created[i].name /\ f.row = created[i].row
        /\ \A i, k \in DOMAIN created : i # k => created[i].name # created[k].name
        /\ Cardinality(disk) = Cardinality(disk0) + Len(created)
        /\ rv_pc = "done" => Len(created) = Cardinality(Qualifying)

\* Two rows of the same title and author have been written next to an old
\* file of that name and an old file of the first suffixed name.
CollidingRowsWritten ==
    /\ ReviewDone("parse")
    /\ Len(created) = 2
    /\ disk0 # {}
    /\ BaseName(df[1]) = BaseName(df[2])
    /\ BaseName(df[1]) \in Names(disk0)
    /\ Suffixed(BaseName(df[1]), 1) \in Names(disk)
    /\ created[1].name # BaseName(df[1])

(* ---------------------------------------------------------------------- *)
(* The gallery server's properties                                         *)
(* ---------------------------------------------------------------------- *)

\* C26: with ADMIN_MODE off no request changes the original image files, the
\* metadata database or the cached image list.
ReadOnlyWithoutAdmin ==
    [][~ADMIN_MODE => UNCHANGED <<image_dir, db, cached_image_list>>]_vars

\* The last item of the form that names path p.
LastItemFor(p) ==
    form[CHOOSE i \in DOMAIN form :
            /\ form[i].path = p
            /\ \A k \in DOMAIN form : k > i => form[k].path # p]

\* Every item of the form is in the database after, and nothing else changed.
AllItemsPersisted(before, after) ==
    /\ \A p \in Range(ServerPaths) :
          IF \E i \in DOMAIN form : form[i].path = p
          THEN /\ p \in DOMAIN after.images
               /\ after.images[p].title = LastItemFor(p).title
               /\ after.images[p].tags = Range(LastItemFor(p).tags)
          ELSE /\ p \in DOMAIN after.images <=> p \in DOMAIN before.images
               /\ p \in DOMAIN before.images => after.images[p] = before.images[p]
    /\ after.tags = before.tags \cup UNION {Range(form[i].tags) : i \in DOMAIN form}

\* An item of the form cannot be processed.
SomeItemRaises == \E i \in DOMAIN form : ~IsInt(form[i].drawings_count)

\* C27: a posted form is applied all-or-nothing: the response is 500 and the
\* database is as before, or it is the redirect and every item is persisted;
\* a form with an item that raises is never answered with the redirect.
SaveIsAllOrNothing ==
    [][\/ response'.status = 403 /\ ~ADMIN_MODE /\ db' = db
       \/ response'.status = 500 /\ db' = db
       \/ /\ response'.status = 303
          /\ ~SomeItemRaises
          /\ AllItemsPersisted(db, db')]_vars

\* A form whose first item is good and whose second raises was answered with
\* 500, and the first item's title is not in the database.
SecondItemRolledBackFirst ==
    /\ ADMIN_MODE
    /\ response.status = 500
    /\ Len(form) = 2
    /\ IsInt(form[1].drawings_count)
    /\ ~HasDuplicate(form[1].tags)
    /\ ~IsInt(form[2].drawings_count)
    /\ form[1].path # form[2].path
    /\ form[1].path \in DOMAIN db.images => db.images[form[1].path].title # form[1].title

\* ceil(n / IMAGES_PER_PAGE): the least number of pages that hold n images.
LastPage ==
    CHOOSE k \in 0..Len(cached_image_list) :
        /\ k * IMAGES_PER_PAGE >= Len(cached_image_list)
        /\ (k - 1) * IMAGES_PER_PAGE < Len(cached_image_list)

\* A rendered page holds the images at its positions of the list, in order,
\* and its links are there exactly when the neighbour is a page.
PageIsItsShareOfList(pg) ==
    /\ pg.current_page \in 1..LastPage
    /\ Len(pg.images_on_page) \in 1..IMAGES_PER_PAGE
    /\ \A i \in DOMAIN pg.images_on_page :
          pg.images_on_page[i] =
              cached_image_list[(pg.current_page - 1) * IMAGES_PER_PAGE + i]
    /\ pg.has_next <=> pg.current_page + 1 \in 1..LastPage
    /\ pg.has_prev <=> pg.current_page - 1 \in 1..LastPage

\* C29: pages 1..ceil(n / IMAGES_PER_PAGE) partition a non-empty list in
\* order, each holds 1 to IMAGES_PER_PAGE images, has_next and has_prev tell
\* whether the neighbour is a page, and any other page number is a 404.
PagesPartitionList ==
    cached_image_list # <<>> =>
        /\ response.status = 200 => PageIsItsShareOfList(response.page)
        /\ response.status = 404 <=>
              (response.status # 0 /\ response.page_num \notin 1..LastPage)
        /\ \A pg \in served : PageIsItsShareOfList(pg)
        /\ \A pg, other \in served :
              pg.current_page # other.current_page =>
                  Range(pg.images_on_page) \cap Range(other.images_on_page) = {}
        /\ Cardinality({pg.current_page : pg \in served}) = LastPage =>
              UNION {Range(pg.images_on_page) : pg \in served}
                  = Range(cached_image_list)

\* Every page of a list of more than two full pages has been served, and a
\* request past the last page was refused.
AllPagesServed ==
    /\ Len(cached_image_list) > 2 * IMAGES_PER_PAGE
    /\ Cardinality(served) = LastPage
    /\ response.status = 404
    /\ response.page_num = LastPage + 1

====
